---- MODULE Spec2Model ----
(***************************************************************************)
(* A model of minitar (src/minitar.c, src/minitar_main.c): the archive     *)
(* file on disk, the three mutating operations create / append / update,   *)
(* the existence check, the list and extract operations, and the           *)
(* command-line program; the bytes of one header block as fill_tar_header  *)
(* and compute_checksum build them; and the operations step by step, two   *)
(* of them at once on the same archive path.                               *)
(*                                                                         *)
(* The archive file is a sequence of pieces.  A piece is the first n bytes *)
(* (1 <= n <= BLOCK_SIZE) of one block: a header block, a content block of *)
(* a source file, or an all-zero block.  Every write puts whole blocks     *)
(* into the file (a write that is cut short loses whole blocks); a piece   *)
(* shorter than a block is what a truncation leaves when it cuts into a    *)
(* block.  The byte length of the file is the sum of the pieces' n.        *)
(***************************************************************************)
EXTENDS Integers, Sequences, FiniteSets, TLC

VARIABLES disk,    \* the archive path: [exists, bytes]
          pre,     \* the archive path as it was before the last operation
          op,      \* the last operation: [cmd, files, fault, argc]
          result,  \* the value the last create/append/update/list/extract returned
          exit,    \* the value the last run of main returned, as an exit status
          out,     \* what the last list / extract produced: [listed, extracted]
          calc,    \* one header being built: the stat result and the header block
          procs    \* the operations in progress, step by step: one record each

vars == <<disk, pre, op, result, exit, out, calc, procs>>
\* the variables the whole-operation actions leave alone
aside == <<calc, procs>>

(***************************** constants *********************************)
BLOCK_SIZE == 512
NUM_TRAILING_BLOCKS == 2
\* width of the name field, strncpy(header->name, file_name, 100)
NAME_LEN == 100
\* width in bits of the (unsigned) the file size is cast to
UNSIGNED_BITS == 32
\* a byte count is written [gib, low]: gib * 2^GIB_BITS + low bytes, with
\* low < 2^GIB_BITS
GIB_BITS == 30
\* main prints the usage text when argc is below this
MIN_ARGC == 4

(******************************* bounds **********************************)
\* longest file list handed to an operation
MaxLen == 2
\* no operation is run whose outcome is an archive of more pieces than this
MaxBlocks == 5
\* bytes of a file name in a header built byte by byte
MaxName == 2
\* whole GiB in the size of a file whose header is built byte by byte
MaxGib == 4

(*************************** names and files *****************************)
\* A file name: head stands for its first NAME_LEN bytes (all of them when
\* the name is shorter), len is its byte length, tail stands for the bytes
\* beyond NAME_LEN ("" when there are none).
NoName == [head |-> "", len |-> 0, tail |-> ""]
FileA == [head |-> "a", len |-> 5, tail |-> ""]
\* a name of exactly NAME_LEN bytes
FileP == [head |-> "p", len |-> NAME_LEN, tail |-> ""]
\* a longer name whose first NAME_LEN bytes are FileP's name
FileL == [head |-> "p", len |-> NAME_LEN + 1, tail |-> "x"]
Files == {FileA, FileP, FileL}

\* st_mode & 07777 of each source file
FileMode(f) == IF f = FileA THEN 420 ELSE 384

\* st_size of each source file
FileSize(f) == CASE f = FileA -> [gib |-> 0, low |-> 100]
                 [] f = FileP -> [gib |-> 0, low |-> 0]
                 [] OTHER -> [gib |-> 0, low |-> 0]

Lists == UNION {[1..n -> Files] : n \in 0..MaxLen}

\* What the environment does to the operation: nothing, or one failure.
\*   open   fopen of the archive for writing fails
\*   read   fopen of the archive for reading fails
\*   trunc  truncate(2) of the archive fails
\*   footer writing the footer fails (nothing of it reaches the file)
\*   stat   stat / owner lookup of the i-th file written fails
\*   io     the write of the i-th file's entry is cut short: its last block
\*          does not reach the file
NoFault == [k |-> "none", i |-> 0]
Faults(files) ==
    {NoFault}
    \cup {[k |-> x, i |-> 0] : x \in {"open", "footer"}}
    \cup {[k |-> x, i |-> j] : x \in {"stat", "io"}, j \in 1..Len(files)}
TruncFault == [k |-> "trunc", i |-> 0]
ReadFault == [k |-> "read", i |-> 0]
FaultAt(fault, i) == IF fault.i = i THEN fault.k ELSE "none"

(***************************** header codec ******************************)
\* strncpy(header->name, file_name, 100): the first NAME_LEN bytes
StoredName(f) ==
    IF f.len <= NAME_LEN THEN f
    ELSE [head |-> f.head, len |-> NAME_LEN, tail |-> ""]

\* snprintf(header->size, 12, "%011o", (unsigned) stat_buf.st_size)
SizeField(sz) == [gib |-> sz.gib % (2 ^ (UNSIGNED_BITS - GIB_BITS)), low |-> sz.low]

\* content blocks of an entry of sz content bytes
Blocks(sz) ==
    sz.gib * ((2 ^ GIB_BITS) \div BLOCK_SIZE) + (sz.low + BLOCK_SIZE - 1) \div BLOCK_SIZE

NoSize == [gib |-> 0, low |-> 0]
ZeroBlock == [k |-> "zero", name |-> NoName, size |-> NoSize, n |-> BLOCK_SIZE]
Hdr(f) == [k |-> "hdr", name |-> StoredName(f),
           size |-> SizeField(FileSize(f)), n |-> BLOCK_SIZE]
\* the j-th content block of source file f (its last one zero-padded)
Dat(f, j) == [k |-> "dat", name |-> f, size |-> [gib |-> 0, low |-> j], n |-> BLOCK_SIZE]

\* fill_tar_header: memset to zero, then -1 when stat or a lookup fails
fill_tar_header(f, statOk) ==
    IF statOk THEN [rc |-> 0, hdr |-> Hdr(f)]
    ELSE [rc |-> -1, hdr |-> ZeroBlock]

(***************************** byte helpers ******************************)
\* the byte length of the first i pieces
RECURSIVE LenUpTo(_, _)
LenUpTo(bytes, i) == IF i = 0 THEN 0 ELSE bytes[i].n + LenUpTo(bytes, i - 1)

TotalLen(bytes) == LenUpTo(bytes, Len(bytes))

\* the first m bytes of the file
RECURSIVE Take(_, _)
Take(bytes, m) ==
    IF m <= 0 \/ bytes = <<>> THEN <<>>
    ELSE IF bytes[1].n <= m
         THEN <<bytes[1]>> \o Take(Tail(bytes), m - bytes[1].n)
         ELSE <<[bytes[1] EXCEPT !.n = m]>>

(***************************** archive writer ****************************)
\* the blocks of f's entry: its header, then its content blocks
EntryBlocks(f) == <<Hdr(f)>> \o [j \in 1..Blocks(FileSize(f)) |-> Dat(f, j)]

\* an entry whose write was cut short: its last block is missing
CutShort(blocks) == SubSeq(blocks, 1, Len(blocks) - 1)

\* write_file_to_archive(archive, name): header via fill_tar_header, then the
\* content padded to a block boundary; 0, or -1 on a stat or write failure.
\* fk is what the environment does to this write: "none", "stat" or "io".
write_file_to_archive(bytes, f, fk) ==
    LET h == fill_tar_header(f, fk # "stat")
    IN  IF h.rc # 0 THEN [rc |-> -1, bytes |-> bytes]
        ELSE IF fk = "io"
             THEN [rc |-> -1, bytes |-> bytes \o CutShort(EntryBlocks(f))]
             ELSE [rc |-> 0, bytes |-> bytes \o EntryBlocks(f)]

\* write_footer / write_tar_footer: NUM_TRAILING_BLOCKS all-zero blocks
write_tar_footer(bytes, fails) ==
    IF fails THEN [rc |-> -1, bytes |-> bytes]
    ELSE [rc |-> 0, bytes |-> bytes \o [j \in 1..NUM_TRAILING_BLOCKS |-> ZeroBlock]]

(***************************** archive scanner ***************************)
\* index of the piece that starts at byte offset off, 0 when there is none
PieceAt(bytes, off) ==
    LET starts == {i \in 1..Len(bytes) : LenUpTo(bytes, i - 1) = off}
    IN  IF starts = {} THEN 0 ELSE CHOOSE i \in starts : TRUE

\* read_tar_header(archive, name, NULL) with the stream at offset off: reads
\* one block; 0 with the header's name, and the stream moved past the entry's
\* content blocks, when the block is a valid header; non-zero at the end of
\* the file, on an all-zero block and on a block that is no valid header.
read_tar_header(bytes, off) ==
    LET i == PieceAt(bytes, off)
    IN  IF i # 0 /\ bytes[i].k = "hdr" /\ bytes[i].n = BLOCK_SIZE
        THEN [rc |-> 0, name |-> bytes[i].name,
              next |-> off + BLOCK_SIZE + Blocks(bytes[i].size) * BLOCK_SIZE]
        ELSE [rc |-> -1, name |-> NoName, next |-> off]

\* the names the scanner yields from offset off on
RECURSIVE ScanFrom(_, _)
ScanFrom(bytes, off) ==
    LET h == read_tar_header(bytes, off)
    IN  IF h.rc # 0 THEN <<>> ELSE <<h.name>> \o ScanFrom(bytes, h.next)

ScanNames(bytes) == ScanFrom(bytes, 0)

\* the mutant of file_exists: a match is not reported
file_exists_no_match(d, f, openFails) == 0

\* file_exists (update_archive calls it as file_exists_in_archive): -1 when
\* an entry's stored name equals file_name, 0 when none does or the archive
\* cannot be opened
file_exists(d, f, openFails) ==
    IF ~d.exists \/ openFails THEN 0
    ELSE LET names == ScanNames(d.bytes)
         IN  IF \E i \in 1..Len(names) : names[i] = f THEN -1 ELSE 0

(***************************** archive mutator ***************************)
\* the mutant of remove_trailing_bytes: the size is not reduced
remove_trailing_bytes_keep(d, nbytes, truncFails) ==
    IF ~d.exists \/ truncFails THEN [rc |-> -1, disk |-> d]
    ELSE [rc |-> 0, disk |-> d]

\* the mutant of remove_trailing_bytes: the comparison is the wrong way round
remove_trailing_bytes_flip(d, nbytes, truncFails) ==
    IF ~d.exists \/ truncFails THEN [rc |-> -1, disk |-> d]
    ELSE LET sz == TotalLen(d.bytes)
             new == IF nbytes < sz THEN 0 ELSE sz - nbytes
         IN  [rc |-> 0, disk |-> [d EXCEPT !.bytes = Take(d.bytes, new)]]

\* the mutant of remove_trailing_bytes: twice as many bytes are cut off
remove_trailing_bytes_twice(d, nbytes, truncFails) ==
    IF ~d.exists THEN [rc |-> -1, disk |-> d]
    ELSE LET sz == TotalLen(d.bytes)
             new == IF 2 * nbytes > sz THEN 0 ELSE sz - 2 * nbytes
         IN  IF truncFails THEN [rc |-> -1, disk |-> d]
             ELSE [rc |-> 0, disk |-> [d EXCEPT !.bytes = Take(d.bytes, new)]]

\* remove_trailing_bytes(file_name, nbytes): stat, then truncate to
\* max(size - nbytes, 0)
remove_trailing_bytes(d, nbytes, truncFails) ==
    IF ~d.exists THEN [rc |-> -1, disk |-> d]
    ELSE LET sz == TotalLen(d.bytes)
             new == IF nbytes > sz THEN 0 ELSE sz - nbytes
         IN  IF truncFails THEN [rc |-> -1, disk |-> d]
             ELSE [rc |-> 0, disk |-> [d EXCEPT !.bytes = Take(d.bytes, new)]]

\* the loop of create_archive from the i-th file on: the first failing write
\* ends it
RECURSIVE CreateLoop(_, _, _, _)
CreateLoop(bytes, files, i, fault) ==
    IF i > Len(files) THEN [rc |-> 0, bytes |-> bytes]
    ELSE LET w == write_file_to_archive(bytes, files[i], FaultAt(fault, i))
         IN  IF w.rc = -1 THEN [rc |-> -1, bytes |-> w.bytes]
             ELSE CreateLoop(w.bytes, files, i + 1, fault)

\* the loop of append_files_to_archive from the i-th file on: a failing write
\* is reported and the loop goes on
RECURSIVE AppendLoop(_, _, _, _)
AppendLoop(bytes, files, i, fault) ==
    IF i > Len(files) THEN bytes
    ELSE AppendLoop(write_file_to_archive(bytes, files[i], FaultAt(fault, i)).bytes,
                    files, i + 1, fault)

\* the mutant of create_archive: a failing write does not end the loop
create_archive_continue(d, files, fault) ==
    IF fault.k = "open" THEN [rc |-> -1, disk |-> d]
    ELSE [rc |-> 0,
          disk |-> [exists |-> TRUE,
                    bytes |-> write_tar_footer(AppendLoop(<<>>, files, 1, fault),
                                               fault.k = "footer").bytes]]

\* create_archive: fopen "wb" (creates or empties the file), every file in
\* list order, the footer (its result is not looked at)
create_archive(d, files, fault) ==
    IF fault.k = "open" THEN [rc |-> -1, disk |-> d]
    ELSE LET w == CreateLoop(<<>>, files, 1, fault)
         IN  IF w.rc = -1
             THEN [rc |-> -1, disk |-> [exists |-> TRUE, bytes |-> w.bytes]]
             ELSE [rc |-> 0,
                   disk |-> [exists |-> TRUE,
                             bytes |-> write_tar_footer(w.bytes,
                                                        fault.k = "footer").bytes]]

\* the mutant of append_files_to_archive: the first failing write ends it
append_files_to_archive_abort(d, files, fault) ==
    IF ~d.exists THEN [rc |-> -1, disk |-> d]
    ELSE LET t == remove_trailing_bytes(d, BLOCK_SIZE * NUM_TRAILING_BLOCKS,
                                        fault.k = "trunc")
         IN  IF t.rc = -1 THEN [rc |-> -1, disk |-> t.disk]
             ELSE IF fault.k = "open" THEN [rc |-> 1, disk |-> t.disk]
             ELSE LET w == CreateLoop(t.disk.bytes, files, 1, fault)
                  IN  IF w.rc = -1
                      THEN [rc |-> -1, disk |-> [exists |-> TRUE, bytes |-> w.bytes]]
                      ELSE [rc |-> 0,
                            disk |-> [exists |-> TRUE,
                                      bytes |-> write_tar_footer(w.bytes,
                                                   fault.k = "footer").bytes]]

\* the mutant of append_files_to_archive: the archive is not required to exist
append_files_to_archive_nocheck(d, files, fault) ==
    LET t == [exists |-> TRUE,
              bytes |-> IF d.exists
                        THEN remove_trailing_bytes(d, BLOCK_SIZE * NUM_TRAILING_BLOCKS,
                                                   fault.k = "trunc").disk.bytes
                        ELSE <<>>]
    IN  IF fault.k = "open" THEN [rc |-> 1, disk |-> d]
        ELSE [rc |-> 0,
              disk |-> [exists |-> TRUE,
                        bytes |-> write_tar_footer(AppendLoop(t.bytes, files, 1, fault),
                                                   fault.k = "footer").bytes]]

\* append_files_to_archive: stat the archive, cut the footer off, fopen
\* "ab+", every file in list order whatever fails, a new footer
append_files_to_archive(d, files, fault) ==
    IF ~d.exists THEN [rc |-> -1, disk |-> d]
    ELSE LET t == remove_trailing_bytes(d, BLOCK_SIZE * NUM_TRAILING_BLOCKS,
                                        fault.k = "trunc")
         IN  IF t.rc = -1 THEN [rc |-> -1, disk |-> t.disk]
             ELSE IF fault.k = "open" THEN [rc |-> 1, disk |-> t.disk]
             ELSE [rc |-> 0,
                   disk |-> [exists |-> TRUE,
                             bytes |-> write_tar_footer(
                                           AppendLoop(t.disk.bytes, files, 1, fault),
                                           fault.k = "footer").bytes]]

\* the files of the list that the existence check does not find, in list order
NewFiles(d, files, openFails) ==
    SelectSeq(files, LAMBDA f : file_exists(d, f, openFails) = 0)

\* the mutant of update_archive: the whole list is handed to append
update_archive_all(d, files, fault) ==
    IF Len(files) > 0 THEN append_files_to_archive(d, files, fault)
    ELSE [rc |-> 0, disk |-> d]

\* update_archive: append the files the existence check does not find; do
\* nothing when there are none
update_archive(d, files, fault) ==
    LET new_files == NewFiles(d, files, fault.k = "read")
    IN  IF Len(new_files) > 0
        THEN append_files_to_archive(d, new_files, fault)
        ELSE [rc |-> 0, disk |-> d]

\* get_archive_file_list(archive_name, files): not implemented, it returns 0
\* and leaves the list it was handed as it is
get_archive_file_list(d, files) == [rc |-> 0, disk |-> d, files |-> files]

\* extract_files_from_archive(archive_name): not implemented, it returns 0
\* and makes no file
extract_files_from_archive(d) == [rc |-> 0, disk |-> d, made |-> {}]

(***************************** header bytes ******************************)
\* A header block as its fields, each field the bytes the code stores in it
\* before the NUL bytes that fill the rest of the block (a NUL byte adds
\* nothing to the checksum).  A byte is a number in 0..255.
CHAR_BITS == 8
\* ' ', the blank of the checksum field, and '0', the first digit
SPACE == 32
DIGIT_ZERO == 48
\* the size of the checksum field, of the mode/uid/gid/dev fields and of the
\* size/mtime fields, as handed to snprintf
CHKSUM_FIELD == 8
SHORT_FIELD == 8
LONG_FIELD == 12
\* "ustar" and REGTYPE
MAGIC == <<117, 115, 116, 97, 114>>
REGTYPE == DIGIT_ZERO
\* bits of one octal digit
OCTAL_BITS == 3

Min(a, b) == IF a < b THEN a ELSE b

\* the last n octal digits of v, most significant first
RECURSIVE Octal(_, _)
Octal(v, n) ==
    IF n = 0 THEN <<>>
    ELSE Append(Octal(v \div (2 ^ OCTAL_BITS), n - 1), v % (2 ^ OCTAL_BITS))

\* the number of octal digits of v
RECURSIVE OctalLen(_)
OctalLen(v) == IF v < 2 ^ OCTAL_BITS THEN 1 ELSE 1 + OctalLen(v \div (2 ^ OCTAL_BITS))

\* an int as the unsigned it converts to, [gib, low]: a negative value wraps
ToUnsigned(v) ==
    IF v >= 0 THEN [gib |-> v \div (2 ^ GIB_BITS), low |-> v % (2 ^ GIB_BITS)]
    ELSE [gib |-> 2 ^ (UNSIGNED_BITS - GIB_BITS) - 1, low |-> 2 ^ GIB_BITS + v]

\* the digits "%0wo" prints for the unsigned u = [gib, low]: at least w
PrintOctal(u, w) ==
    IF u.gib = 0
    THEN Octal(u.low, IF OctalLen(u.low) > w THEN OctalLen(u.low) ELSE w)
    ELSE <<u.gib>> \o Octal(u.low, GIB_BITS \div OCTAL_BITS)

\* digits as characters
Chars(digits) == [i \in 1..Len(digits) |-> DIGIT_ZERO + digits[i]]

\* snprintf(field, size, ...): at most size - 1 characters are stored
snprintf(size, chars) == SubSeq(chars, 1, Min(Len(chars), size - 1))

\* the header's bytes in the order of the block
HeaderBytes(h) ==
    h.name \o h.mode \o h.uid \o h.gid \o h.size \o h.mtime \o h.chksum
        \o h.typeflag \o h.magic \o h.version \o h.uname \o h.gname
        \o h.devmajor \o h.devminor

\* bytes[i] read through a char pointer: where char is signed, a byte of 128
\* or more is a negative number
AsChar(b, signedChar) ==
    IF signedChar /\ b >= 2 ^ (CHAR_BITS - 1) THEN b - 2 ^ CHAR_BITS ELSE b

RECURSIVE SumBytes(_, _)
SumBytes(bytes, signedChar) ==
    IF bytes = <<>> THEN 0
    ELSE AsChar(Head(bytes), signedChar) + SumBytes(Tail(bytes), signedChar)

\* compute_checksum: blank the field, add up the block through a char
\* pointer into an unsigned, print it with "%07o" into the 8-byte field
compute_checksum(h, signedChar) ==
    LET blank == [h EXCEPT !.chksum = [i \in 1..CHKSUM_FIELD |-> SPACE]]
        sum == ToUnsigned(SumBytes(HeaderBytes(blank), signedChar))
    IN  [blank EXCEPT !.chksum =
            snprintf(CHKSUM_FIELD, Chars(PrintOctal(sum, CHKSUM_FIELD - 1)))]

\* fill_tar_header after a stat that succeeded, field by field, with the
\* checksum computed last
fill_tar_header_bytes(name, st, signedChar) ==
    compute_checksum(
        [name     |-> SubSeq(name, 1, Min(Len(name), NAME_LEN)),
         mode     |-> snprintf(SHORT_FIELD, Chars(PrintOctal(ToUnsigned(st.st_mode), SHORT_FIELD - 1))),
         uid      |-> snprintf(SHORT_FIELD, Chars(PrintOctal(ToUnsigned(st.st_uid), SHORT_FIELD - 1))),
         gid      |-> snprintf(SHORT_FIELD, Chars(PrintOctal(ToUnsigned(st.st_gid), SHORT_FIELD - 1))),
         size     |-> snprintf(LONG_FIELD, Chars(PrintOctal(SizeField(st.st_size), LONG_FIELD - 1))),
         mtime    |-> snprintf(LONG_FIELD, Chars(PrintOctal(SizeField(st.st_mtime), LONG_FIELD - 1))),
         chksum   |-> <<>>,
         typeflag |-> <<REGTYPE>>,
         magic    |-> MAGIC,
         version  |-> <<DIGIT_ZERO, DIGIT_ZERO>>,
         uname    |-> st.pw_name,
         gname    |-> st.gr_name,
         devmajor |-> snprintf(SHORT_FIELD, Chars(PrintOctal(ToUnsigned(st.major), SHORT_FIELD - 1))),
         devminor |-> snprintf(SHORT_FIELD, Chars(PrintOctal(ToUnsigned(st.minor), SHORT_FIELD - 1)))],
        signedChar)

\* the number a scanner reads from a field of octal digit characters
RECURSIVE FromOctal(_)
FromOctal(chars) ==
    IF chars = <<>> THEN 0
    ELSE FromOctal(SubSeq(chars, 1, Len(chars) - 1)) * (2 ^ OCTAL_BITS)
            + (chars[Len(chars)] - DIGIT_ZERO)

\* the size a scanner reads from the size field, as [gib, low]
ParseSize(chars) ==
    [gib |-> chars[1] - DIGIT_ZERO, low |-> FromOctal(Tail(chars))]

(***************************** the program *******************************)
Cmds == {"-c", "-a", "-t", "-u", "-x", "-z"}

\* the value main's return gives the process as its exit status
ExitStatus(rv) == rv % 256

\* main: argv[1] is the command, argv[2] the archive, argv[3..] the files.
\* rv is what main returns, rc what the operation it ran returned.
main(d, argc, cmd, files, fault) ==
    IF argc < MIN_ARGC THEN [rv |-> 0, rc |-> 0, disk |-> d]
    ELSE IF cmd \notin {"-c", "-a", "-t", "-u", "-x"}
         THEN [rv |-> -1, rc |-> 0, disk |-> d]
         ELSE LET r == CASE cmd = "-c" -> create_archive(d, files, fault)
                         [] cmd = "-a" -> append_files_to_archive(d, files, fault)
                         [] cmd = "-t" -> get_archive_file_list(d, files)
                         [] cmd = "-u" -> append_files_to_archive(d, files, fault)
                         [] cmd = "-x" -> extract_files_from_archive(d)
              IN  [rv |-> 0, rc |-> r.rc, disk |-> r.disk]

(***************************** state machine *****************************)
Absent == [exists |-> FALSE, bytes |-> <<>>]
Idle == [cmd |-> "idle", files |-> <<>>, fault |-> NoFault, argc |-> 0]
\* no header is being built, no operation is in progress
NoCalc == [stage |-> "none"]
NoProcs == <<>>
\* nothing listed, no file made
NoOut == [listed |-> <<>>, extracted |-> {}]

Init ==
    /\ disk = Absent
    /\ pre = Absent
    /\ op = Idle
    /\ result = 0
    /\ exit = 0
    /\ out = NoOut
    /\ calc = NoCalc
    /\ procs = NoProcs

\* the archive stays within the model's size
Fits(d) == Len(d.bytes) <= MaxBlocks

CreateOp ==
    /\ op = Idle
    /\ \E files \in Lists : \E fault \in Faults(files) :
        LET r == create_archive(disk, files, fault)
        IN  /\ Fits(r.disk)
            /\ disk' = r.disk
            /\ pre' = disk
            /\ op' = [cmd |-> "create", files |-> files, fault |-> fault, argc |-> 0]
            /\ result' = r.rc
            /\ UNCHANGED <<exit, out, aside>>

AppendOp ==
    /\ op = Idle
    /\ \E files \in Lists : \E fault \in Faults(files) \cup {TruncFault} :
        LET r == append_files_to_archive(disk, files, fault)
        IN  /\ Fits(r.disk)
            /\ disk' = r.disk
            /\ pre' = disk
            /\ op' = [cmd |-> "append", files |-> files, fault |-> fault, argc |-> 0]
            /\ result' = r.rc
            /\ UNCHANGED <<exit, out, aside>>

UpdateOp ==
    /\ op = Idle
    /\ \E files \in Lists : \E fault \in Faults(files) \cup {TruncFault, ReadFault} :
        LET r == update_archive(disk, files, fault)
        IN  /\ Fits(r.disk)
            /\ disk' = r.disk
            /\ pre' = disk
            /\ op' = [cmd |-> "update", files |-> files, fault |-> fault, argc |-> 0]
            /\ result' = r.rc
            /\ UNCHANGED <<exit, out, aside>>

\* one run of the program: argc counts the program name, the command, the
\* archive and the files
MainOp ==
    /\ op = Idle
    /\ \E argc \in 1..(3 + MaxLen) : \E cmd \in Cmds :
       \E files \in {l \in Lists : Len(l) = IF argc > 3 THEN argc - 3 ELSE 0} :
       \E fault \in Faults(files) \cup {TruncFault} :
        LET r == main(disk, argc, cmd, files, fault)
        IN  /\ Fits(r.disk)
            /\ disk' = r.disk
            /\ pre' = disk
            /\ op' = [cmd |-> cmd, files |-> files, fault |-> fault, argc |-> argc]
            /\ result' = r.rc
            /\ exit' = ExitStatus(r.rv)
            /\ out' = IF argc >= MIN_ARGC /\ cmd = "-t"
                      THEN [NoOut EXCEPT !.listed = get_archive_file_list(disk, files).files]
                      ELSE NoOut
            /\ UNCHANGED aside

\* the caller has seen the outcome; the next operation starts from the
\* archive as it now is
Return ==
    /\ op # Idle
    /\ op' = Idle
    /\ pre' = Absent
    /\ result' = 0
    /\ exit' = 0
    /\ out' = NoOut
    /\ UNCHANGED <<disk, aside>>

\* list: files is the list the caller hands in for the names
ListOp ==
    /\ op = Idle
    /\ \E files \in Lists : \E fault \in {NoFault, ReadFault} :
        LET r == get_archive_file_list(disk, files)
        IN  /\ disk' = r.disk
            /\ pre' = disk
            /\ op' = [cmd |-> "list", files |-> files, fault |-> fault, argc |-> 0]
            /\ result' = r.rc
            /\ out' = [NoOut EXCEPT !.listed = r.files]
            /\ UNCHANGED <<exit, aside>>

ExtractOp ==
    /\ op = Idle
    /\ \E fault \in {NoFault, ReadFault} :
        LET r == extract_files_from_archive(disk)
        IN  /\ disk' = r.disk
            /\ pre' = disk
            /\ op' = [cmd |-> "extract", files |-> <<>>, fault |-> fault, argc |-> 0]
            /\ result' = r.rc
            /\ out' = [NoOut EXCEPT !.extracted = r.made]
            /\ UNCHANGED <<exit, aside>>

Next == CreateOp \/ AppendOp \/ UpdateOp \/ ListOp \/ ExtractOp \/ Return
Spec == Init /\ [][Next]_vars

NextCli == MainOp \/ Return
SpecCli == Init /\ [][NextCli]_vars

(***************************** building one header ***********************)
\* the bytes a file name is made of here: a letter and two bytes above 127
ByteVals == {97, 128, 255}
NameBytes == UNION {[1..n -> ByteVals] : n \in 0..MaxName}

\* st_size of the files whose header is built: around a block boundary, in
\* every GiB up to MaxGib
StatSizes == [gib : 0..MaxGib, low : {0, 100, BLOCK_SIZE, BLOCK_SIZE + 1}]

\* what stat, getpwuid and getgrgid report for a regular file of that size
StatBuf(size) ==
    [st_mode |-> 420, st_uid |-> 1000, st_gid |-> 100,
     st_size |-> size, st_mtime |-> [gib |-> 1, low |-> 700000000],
     pw_name |-> <<117>>, gr_name |-> <<103>>, major |-> 8, minor |-> 1]

\* a file name, what stat reports for it, and the build's char: signed or not
InitHeader ==
    /\ disk = Absent
    /\ pre = Absent
    /\ op = Idle
    /\ result = 0
    /\ exit = 0
    /\ out = NoOut
    /\ procs = NoProcs
    /\ calc \in [stage : {"stat"}, name : NameBytes, st : {StatBuf(z) : z \in StatSizes},
                 signedChar : BOOLEAN]

\* fill_tar_header builds the header of the file
HeaderOp ==
    /\ calc.stage = "stat"
    /\ calc' = [stage |-> "header", name |-> calc.name, st |-> calc.st,
                signedChar |-> calc.signedChar,
                hdr |-> fill_tar_header_bytes(calc.name, calc.st, calc.signedChar)]
    /\ UNCHANGED <<disk, pre, op, result, exit, out, procs>>

NextHeader == HeaderOp
SpecHeader == InitHeader /\ [][NextHeader]_vars

(***************************** operations step by step *******************)
\* Two processes on the same archive path, each running one operation.  A
\* step is one system call or library call on the archive; procs[p] is the
\* process's position and locals:
\*   pc       where it is; "done" once the operation has returned
\*   i        the loop index (the file being checked or written)
\*   new      update_archive's new_files
\*   streams  the archive streams it has open
\*   held     its truncation ran while it had the archive open
\*   rc       the value the operation returned
\*   cut      the pieces its truncation removed
\*   kept     the number of pieces its truncation left
\*   raced    its truncation ran inside the other's window
\*   saw      what its last scan read: "nothing", or while the other was in
\*            its window an archive with ("footer") or without ("open") two
\*            all-zero blocks at its end, or "quiet"
Procs == {"p", "q"}
Other(p) == CHOOSE q \in Procs : q # p

StartOf(o, files, fault) ==
    [op |-> o, files |-> files, fault |-> fault, pc |-> "start", i |-> 1,
     new |-> <<>>, streams |-> 0, held |-> FALSE, rc |-> 0,
     cut |-> <<>>, kept |-> 0, raced |-> FALSE, saw |-> "nothing"]
\* a process that runs nothing
Off == [StartOf("off", <<>>, NoFault) EXCEPT !.pc = "off"]

\* the operation has returned rv
Returned(me, rv) == [me EXCEPT !.pc = "done", !.rc = rv]

\* the list append_files_to_archive was handed
AppendList(me) == IF me.op = "update" THEN me.new ELSE me.files

\* between a truncation that succeeded and the footer rewrite
InWindow(me) == me.pc \in {"a_open", "a_write"}

\* the archive ends in NUM_TRAILING_BLOCKS all-zero blocks
EndsInFooter(bytes) ==
    /\ Len(bytes) >= NUM_TRAILING_BLOCKS
    /\ \A j \in (Len(bytes) - NUM_TRAILING_BLOCKS + 1)..Len(bytes) : bytes[j] = ZeroBlock

\* the steps leave the whole-operation record alone
StepFrame == UNCHANGED <<pre, op, result, exit, out, calc>>

\* the caller enters the operation
Start(p) ==
    LET me == procs[p]
    IN  /\ me.pc = "start"
        /\ procs' = [procs EXCEPT ![p] =
              CASE me.op = "create" -> [me EXCEPT !.pc = "c_open"]
                [] me.op = "append" -> [me EXCEPT !.pc = "a_stat"]
                [] me.op = "update" -> IF Len(me.files) > 0
                                       THEN [me EXCEPT !.pc = "e_open"]
                                       ELSE Returned(me, 0)
                [] OTHER -> [me EXCEPT !.pc = "e_open"]]
        /\ UNCHANGED disk
        /\ StepFrame

\* create_archive: fopen(archive_name, "wb")
OpenWrite(p) ==
    LET me == procs[p]
    IN  /\ me.pc = "c_open"
        /\ IF me.fault.k = "open"
           THEN /\ procs' = [procs EXCEPT ![p] = Returned(me, -1)]
                /\ UNCHANGED disk
           ELSE /\ procs' = [procs EXCEPT ![p] =
                                [me EXCEPT !.pc = "c_write", !.streams = @ + 1]]
                /\ disk' = [exists |-> TRUE, bytes |-> <<>>]
        /\ StepFrame

\* the mutant of CreateEntry: the failing write returns without fclose
CreateEntry_noclose(p) ==
    LET me == procs[p]
        w == write_file_to_archive(disk.bytes, me.files[me.i], FaultAt(me.fault, me.i))
    IN  /\ me.pc = "c_write"
        /\ me.i <= Len(me.files)
        /\ disk' = [disk EXCEPT !.bytes = w.bytes]
        /\ procs' = [procs EXCEPT ![p] =
              IF w.rc = -1 THEN Returned(me, -1)
              ELSE [me EXCEPT !.i = @ + 1]]
        /\ StepFrame

\* create_archive: one turn of the loop; a failing write closes the archive
\* and returns -1
CreateEntry(p) ==
    LET me == procs[p]
        w == write_file_to_archive(disk.bytes, me.files[me.i], FaultAt(me.fault, me.i))
    IN  /\ me.pc = "c_write"
        /\ me.i <= Len(me.files)
        /\ disk' = [disk EXCEPT !.bytes = w.bytes]
        /\ procs' = [procs EXCEPT ![p] =
              IF w.rc = -1 THEN Returned([me EXCEPT !.streams = @ - 1], -1)
              ELSE [me EXCEPT !.i = @ + 1]]
        /\ StepFrame

\* create_archive: write_footer, fclose, return 0
CreateFooter(p) ==
    LET me == procs[p]
    IN  /\ me.pc = "c_write"
        /\ me.i > Len(me.files)
        /\ disk' = [disk EXCEPT !.bytes = write_tar_footer(@, me.fault.k = "footer").bytes]
        /\ procs' = [procs EXCEPT ![p] = Returned([me EXCEPT !.streams = @ - 1], 0)]
        /\ StepFrame

\* append_files_to_archive: stat(archive_name)
StatArchive(p) ==
    LET me == procs[p]
    IN  /\ me.pc = "a_stat"
        /\ procs' = [procs EXCEPT ![p] =
              IF disk.exists THEN [me EXCEPT !.pc = "a_trunc", !.i = 1]
              ELSE Returned(me, -1)]
        /\ UNCHANGED disk
        /\ StepFrame

\* the mutant of Truncate: nothing is cut off an archive that does not end in
\* a footer
Truncate_checked(p) ==
    LET me == procs[p]
        t == IF EndsInFooter(disk.bytes)
             THEN remove_trailing_bytes(disk, BLOCK_SIZE * NUM_TRAILING_BLOCKS,
                                        me.fault.k = "trunc")
             ELSE [rc |-> 0, disk |-> disk]
    IN  /\ me.pc = "a_trunc"
        /\ disk' = t.disk
        /\ procs' = [procs EXCEPT ![p] =
              IF t.rc = -1 THEN Returned(me, -1)
              ELSE [me EXCEPT !.pc = "a_open",
                              !.held = me.streams > 0,
                              !.cut = SubSeq(disk.bytes, Len(t.disk.bytes) + 1,
                                             Len(disk.bytes)),
                              !.kept = Len(t.disk.bytes),
                              !.raced = InWindow(procs[Other(p)])]]
        /\ StepFrame

\* append_files_to_archive: remove_trailing_bytes(archive_name, 1024)
Truncate(p) ==
    LET me == procs[p]
        t == remove_trailing_bytes(disk, BLOCK_SIZE * NUM_TRAILING_BLOCKS,
                                   me.fault.k = "trunc")
    IN  /\ me.pc = "a_trunc"
        /\ disk' = t.disk
        /\ procs' = [procs EXCEPT ![p] =
              IF t.rc = -1 THEN Returned(me, -1)
              ELSE [me EXCEPT !.pc = "a_open",
                              !.held = me.streams > 0,
                              !.cut = SubSeq(disk.bytes, Len(t.disk.bytes) + 1,
                                             Len(disk.bytes)),
                              !.kept = Len(t.disk.bytes),
                              !.raced = InWindow(procs[Other(p)])]]
        /\ StepFrame

\* append_files_to_archive: fopen(archive_name, "ab+"); 1 when it fails
OpenAppend(p) ==
    LET me == procs[p]
    IN  /\ me.pc = "a_open"
        /\ procs' = [procs EXCEPT ![p] =
              IF me.fault.k = "open" THEN Returned(me, 1)
              ELSE [me EXCEPT !.pc = "a_write", !.streams = @ + 1]]
        /\ UNCHANGED disk
        /\ StepFrame

\* append_files_to_archive: one turn of the loop; a failing write is
\* reported and the loop goes on
AppendEntry(p) ==
    LET me == procs[p]
        files == AppendList(me)
    IN  /\ me.pc = "a_write"
        /\ me.i <= Len(files)
        /\ disk' = [disk EXCEPT !.bytes =
              write_file_to_archive(@, files[me.i], FaultAt(me.fault, me.i)).bytes]
        /\ procs' = [procs EXCEPT ![p] = [me EXCEPT !.i = @ + 1]]
        /\ StepFrame

\* append_files_to_archive: write_tar_footer, fclose, return 0
AppendFooter(p) ==
    LET me == procs[p]
    IN  /\ me.pc = "a_write"
        /\ me.i > Len(AppendList(me))
        /\ disk' = [disk EXCEPT !.bytes = write_tar_footer(@, me.fault.k = "footer").bytes]
        /\ procs' = [procs EXCEPT ![p] = Returned([me EXCEPT !.streams = @ - 1], 0)]
        /\ StepFrame

\* what follows the existence check of the i-th file, which returned r: the
\* check alone returns r; update_archive keeps the file when r is 0, goes on
\* to the next file, and after the last one appends new_files unless it is
\* empty
AfterCheck(me, r) ==
    IF me.op # "update" THEN Returned(me, r)
    ELSE LET new_files == IF r = 0 THEN Append(me.new, me.files[me.i]) ELSE me.new
         IN  IF me.i < Len(me.files)
             THEN [me EXCEPT !.pc = "e_open", !.i = @ + 1, !.new = new_files]
             ELSE IF Len(new_files) > 0
                  THEN [me EXCEPT !.pc = "a_stat", !.new = new_files]
                  ELSE Returned([me EXCEPT !.new = new_files], 0)

\* file_exists: fopen(archive_name, "rb"); 0 when it fails
OpenRead(p) ==
    LET me == procs[p]
    IN  /\ me.pc = "e_open"
        /\ procs' = [procs EXCEPT ![p] =
              IF ~disk.exists \/ me.fault.k = "read" THEN AfterCheck(me, 0)
              ELSE [me EXCEPT !.pc = "e_scan", !.streams = @ + 1]]
        /\ UNCHANGED disk
        /\ StepFrame

\* file_exists: the loop over the headers; fclose on the match and at the end
Scan(p) ==
    LET me == procs[p]
        r == file_exists(disk, me.files[me.i], FALSE)
        view == IF ~InWindow(procs[Other(p)]) THEN "quiet"
                ELSE IF EndsInFooter(disk.bytes) THEN "footer" ELSE "open"
    IN  /\ me.pc = "e_scan"
        /\ procs' = [procs EXCEPT ![p] =
              AfterCheck([me EXCEPT !.streams = @ - 1, !.saw = view], r)]
        /\ UNCHANGED disk
        /\ StepFrame

\* one operation alone: any operation, list and failure, on a path that is
\* absent or holds an archive a create left
StepOps == {"create", "append", "update", "exists"}
StepFaults(o, files) ==
    CASE o = "create" -> Faults(files)
      [] o = "append" -> Faults(files) \cup {TruncFault}
      [] o = "update" -> Faults(files) \cup {TruncFault, ReadFault}
      [] OTHER -> {NoFault, ReadFault}
StepLists(o) == IF o = "exists" THEN {L \in Lists : Len(L) = 1} ELSE Lists
AloneStarts ==
    UNION {{StartOf(o, files, fault) : fault \in StepFaults(o, files)} :
              <<o, files>> \in {x \in StepOps \X Lists : x[2] \in StepLists(x[1])}}
\* the archive create_archive leaves of these files when nothing fails
Archive(files) == create_archive(Absent, files, NoFault).disk
StepDisks == {Absent, Archive(<<>>), Archive(<<FileA>>)}

\* two operations at once on an archive a create left: appends, updates and
\* existence checks of at most one file, nothing failing
RaceLists(o) == {L \in Lists : Len(L) <= 1 /\ (o = "exists" => Len(L) = 1)}
RaceStarts ==
    UNION {{StartOf(o, files, NoFault) : files \in RaceLists(o)} :
              o \in {"append", "update", "exists"}}
RaceDisks == {Archive(<<>>), Archive(<<FileA>>), Archive(<<FileP>>)}

InitSteps ==
    /\ pre = Absent
    /\ op = Idle
    /\ result = 0
    /\ exit = 0
    /\ out = NoOut
    /\ calc = NoCalc
    /\ \/ /\ disk \in StepDisks
          /\ \E s \in AloneStarts : procs = [x \in Procs |-> IF x = "p" THEN s ELSE Off]
       \/ /\ disk \in RaceDisks
          /\ procs \in [Procs -> RaceStarts]

NextSteps ==
    \E p \in Procs :
        \/ Start(p)
        \/ OpenWrite(p)
        \/ CreateEntry(p)
        \/ CreateFooter(p)
        \/ StatArchive(p)
        \/ Truncate(p)
        \/ OpenAppend(p)
        \/ AppendEntry(p)
        \/ AppendFooter(p)
        \/ OpenRead(p)
        \/ Scan(p)
SpecSteps == InitSteps /\ [][NextSteps]_vars

(***************************** claim vocabulary **************************)
ApiOps == {"create", "append", "update"}

Range(seq) == {seq[i] : i \in 1..Len(seq)}
Count(x, seq) == Cardinality({i \in 1..Len(seq) : seq[i] = x})

\* the names of a list as a header stores them
StoredNames(files) == [i \in 1..Len(files) |-> StoredName(files[i])]

\* the blocks of complete entries of the files, in list order
RECURSIVE Entries(_)
Entries(files) ==
    IF files = <<>> THEN <<>>
    ELSE EntryBlocks(Head(files)) \o Entries(Tail(files))

Footer == [j \in 1..NUM_TRAILING_BLOCKS |-> ZeroBlock]

\* piece i is a header and its content blocks follow it, all of them whole
WholeEntryAt(bytes, i) ==
    /\ i <= Len(bytes)
    /\ bytes[i].k = "hdr"
    /\ bytes[i].n = BLOCK_SIZE
    /\ i + Blocks(bytes[i].size) <= Len(bytes)
    /\ \A j \in 1..Blocks(bytes[i].size) :
          bytes[i + j].k = "dat" /\ bytes[i + j].n = BLOCK_SIZE

\* the index of the first piece after the run of whole entries that starts at
\* piece i
RECURSIVE EntriesEnd(_, _)
EntriesEnd(bytes, i) ==
    IF WholeEntryAt(bytes, i)
    THEN EntriesEnd(bytes, i + 1 + Blocks(bytes[i].size))
    ELSE i

\* the footer invariant: the length is a multiple of BLOCK_SIZE and the file
\* is whole entries followed by exactly NUM_TRAILING_BLOCKS all-zero blocks
FooterInv(bytes) ==
    /\ TotalLen(bytes) % BLOCK_SIZE = 0
    /\ LET e == EntriesEnd(bytes, 1)
       IN  /\ Len(bytes) = e - 1 + NUM_TRAILING_BLOCKS
           /\ \A j \in e..Len(bytes) : bytes[j] = ZeroBlock

\* the path is absent or holds an archive that satisfies the footer invariant
Sound(d) == d.exists => FooterInv(d.bytes)

\* what create leaves when every file can be written
Created(files) == create_archive(Absent, files, NoFault).disk

\* the entry failure of the last operation: the position of the failing file
FailedAt == op.fault.i
EntryFailed == op.fault.k \in {"stat", "io"}
\* what the failing write of file f left in the archive
Leftover(f) == IF op.fault.k = "io" THEN CutShort(EntryBlocks(f)) ELSE <<>>

Clean ==
    \/ op.fault = NoFault
    \/ op.fault.k = "stat" /\ op.cmd \in {"append", "update"}

C2_AppendNamesExact ==
    (op.cmd = "append" /\ op.fault = NoFault) =>
        \A L1 \in Lists :
            pre = Created(L1) => ScanNames(disk.bytes) = L1 \o op.files

\* C2 (amended): append(L2), every file writable, on the archive that
\* create(L1) produced yields the entry name sequence L1 followed by L2, in
\* list order, each name cut to its first 100 bytes.
C2_AppendNamesStored ==
    (op.cmd = "append" /\ op.fault = NoFault) =>
        \A L1 \in Lists :
            pre = Created(L1) =>
                /\ result = 0
                /\ ScanNames(disk.bytes) = StoredNames(L1 \o op.files)

C2_Witness ==
    /\ op.cmd = "append"
    /\ op.fault = NoFault
    /\ pre = Created(<<FileP>>)
    /\ op.files = <<FileL>>
    /\ ScanNames(disk.bytes) = <<FileP, StoredName(FileL)>>

Absentees(S) == SelectSeq(op.files, LAMBDA f : f \notin Range(S))

C5_CliUpdateSkipsPresent ==
    (op.cmd = "-u" /\ op.argc >= MIN_ARGC /\ op.fault = NoFault
        /\ pre.exists /\ FooterInv(pre.bytes)) =>
        \A A \in Range(op.files) \cap Range(ScanNames(pre.bytes)) :
            Count(A, ScanNames(disk.bytes)) = Count(A, ScanNames(pre.bytes))

(***************************** C6 ****************************************)
\* C6: when writing the i-th file fails, create stops at once and reports
\* failure; the archive holds the entries of the files before the i-th and
\* what the failing write left, no later entry and no footer.
C6_CreateStopsAtFailure ==
    (op.cmd = "create" /\ EntryFailed) =>
        /\ result = -1
        /\ disk.exists
        /\ disk.bytes = Entries(SubSeq(op.files, 1, FailedAt - 1))
                            \o Leftover(op.files[FailedAt])
        /\ \A j \in 1..Len(disk.bytes) : disk.bytes[j] # ZeroBlock

C6_Witness ==
    /\ op.cmd = "create"
    /\ op.fault.k = "stat"
    /\ FailedAt = 1
    /\ Len(op.files) = 2
    /\ pre.exists
    /\ Len(pre.bytes) > 0
    /\ disk.bytes = <<>>
    /\ result = -1

(***************************** C7 ****************************************)
\* what is left of the archive once its last NUM_TRAILING_BLOCKS blocks are
\* cut off
CutFooter(bytes) ==
    SubSeq(bytes, 1, IF Len(bytes) > NUM_TRAILING_BLOCKS
                     THEN Len(bytes) - NUM_TRAILING_BLOCKS ELSE 0)

\* C7: when writing the i-th file fails, append still writes every later
\* file in list order and a fresh two-block footer after them, and returns 0.
C7_AppendGoesOn ==
    (op.cmd = "append" /\ EntryFailed /\ pre.exists) =>
        /\ result = 0
        /\ disk.bytes = CutFooter(pre.bytes)
                            \o Entries(SubSeq(op.files, 1, FailedAt - 1))
                            \o Leftover(op.files[FailedAt])
                            \o Entries(SubSeq(op.files, FailedAt + 1, Len(op.files)))
                            \o Footer

C7_Witness ==
    /\ op.cmd = "append"
    /\ op.fault.k = "stat"
    /\ FailedAt = 1
    /\ Len(op.files) = 2
    /\ pre.exists
    /\ disk.bytes = CutFooter(pre.bytes) \o EntryBlocks(op.files[2]) \o Footer

(***************************** C8 ****************************************)
\* C8: append on an archive path that does not exist returns an error, for
\* every file list, and leaves the path non-existent.
C8_AppendNeedsArchive ==
    (op.cmd = "append" /\ ~pre.exists) => (result = -1 /\ disk = pre)

C8_Witness ==
    /\ op.cmd = "append"
    /\ ~pre.exists
    /\ Len(op.files) = MaxLen
    /\ op.fault = NoFault
    /\ result = -1
    /\ ~disk.exists

(***************************** C9 ****************************************)
\* C9: update on an archive path that does not exist returns an error for
\* every file list, the empty list included, and never creates the archive.
C9_UpdateNeedsArchive ==
    (op.cmd = "update" /\ ~pre.exists) => (result # 0 /\ ~disk.exists)

(***************************** C10 ***************************************)
\* C10: the program exits with 0 on success and with a non-zero status on a
\* usage error (too few arguments, unknown command) and when the operation
\* it ran returned an error.
C10_ExitStatus ==
    op.cmd \in Cmds =>
        (exit = 0 <=> (op.argc >= MIN_ARGC /\ op.cmd # "-z" /\ result = 0))

(***************************** C11 ***************************************)
\* C11: list returns the name of every entry in on-disk order: after
\* create(L1) and append(L2), every file writable, it yields exactly L1
\* followed by L2; it fails when the archive cannot be opened.
C11_ListYieldsNames ==
    op.cmd = "list" =>
        /\ op.fault = NoFault =>
              \A L1, L2 \in Lists :
                  pre = append_files_to_archive(Created(L1), L2, NoFault).disk
                      => (result = 0 /\ out.listed = L1 \o L2)
        /\ (~pre.exists \/ op.fault = ReadFault) => result # 0

(***************************** C12 ***************************************)
\* the file extract has to make for source file f: its name, its content (the
\* size bytes of f, no padding) and its permission bits
Recreated(f) ==
    [name |-> f, content |-> f, size |-> FileSize(f), mode |-> FileMode(f)]

\* C12: for any regular file F, create([F]) followed by extract recreates a
\* file named F with F's content, byte for byte, and F's permission bits.
C12_RoundTrip ==
    (op.cmd = "extract" /\ op.fault = NoFault) =>
        \A F \in Files :
            pre = Created(<<F>>) => Recreated(F) \in out.extracted

(***************************** C13 ***************************************)
\* the sum of the header's bytes taken as unsigned values, the checksum
\* field counted as spaces
UnsignedSum(h) ==
    SumBytes(HeaderBytes([h EXCEPT !.chksum = [i \in 1..CHKSUM_FIELD |-> SPACE]]), FALSE)

\* C13: for every header block built, whatever byte values 0..255 its name
\* holds, the stored checksum is the "%07o" rendering of the sum of the
\* block's bytes taken as unsigned values, with the checksum field counted
\* as spaces.
C13_ChecksumUnsigned ==
    calc.stage = "header" =>
        calc.hdr.chksum = Chars(Octal(UnsignedSum(calc.hdr), CHKSUM_FIELD - 1))

(***************************** C14 ***************************************)
\* C14: the size field is the 11-digit zero-padded octal rendering of the
\* content's byte length, for every length up to 8^11 - 1, so that a scanner
\* that skips ceil(size / 512) blocks lands on the next header, for files of
\* 4 GiB and more too.
C14_SizeFieldExact ==
    calc.stage = "header" =>
        /\ calc.hdr.size = Chars(<<calc.st.st_size.gib>>
                                    \o Octal(calc.st.st_size.low, GIB_BITS \div OCTAL_BITS))
        /\ Blocks(ParseSize(calc.hdr.size)) = Blocks(calc.st.st_size)

(***************************** C15 ***************************************)
\* C15: on every exit path of create, append, update and the existence
\* check, early error returns included, each archive stream the operation
\* opened has been closed; and append's truncation never runs while the
\* operation holds the archive open.
C15_StreamsClosed ==
    \A p \in Procs :
        /\ procs[p].pc = "done" => procs[p].streams = 0
        /\ ~procs[p].held

C15_Witness ==
    /\ procs["p"].op = "create"
    /\ procs["p"].fault = [k |-> "io", i |-> 2]
    /\ procs["p"].pc = "done"
    /\ procs["p"].rc = -1
    /\ procs["p"].streams = 0
    /\ disk.exists
    /\ Len(disk.bytes) > 0

(***************************** C16 ***************************************)
\* entry data: header and content blocks, no all-zero block
EntryData(blocks) == \A j \in 1..Len(blocks) : blocks[j].k \in {"hdr", "dat"}

\* C16 (as stated): between an append's or update's truncation and its
\* footer rewrite a concurrent reader sees an archive that does not end in
\* two all-zero blocks, and a second writer that truncates in that window
\* removes 1024 bytes of entry data rather than a footer.
C16_RaceCuts1024 ==
    \A p \in Procs :
        /\ procs[p].saw # "footer"
        /\ procs[p].raced =>
              /\ EntryData(procs[p].cut)
              /\ TotalLen(procs[p].cut) = BLOCK_SIZE * NUM_TRAILING_BLOCKS

\* C16 (amended): between an append's or update's truncation and its footer
\* rewrite a concurrent reader sees an archive that does not end in two
\* all-zero blocks, and a second writer that truncates in that window
\* removes no footer but the last 1024 bytes of entry data, or all the entry
\* data there is when that is less than 1024 bytes.
C16_RaceCutsEntryData ==
    \A p \in Procs :
        /\ procs[p].saw # "footer"
        /\ procs[p].raced =>
              /\ EntryData(procs[p].cut)
              /\ \/ TotalLen(procs[p].cut) = BLOCK_SIZE * NUM_TRAILING_BLOCKS
                 \/ procs[p].kept = 0

\* a reader saw the archive without its footer, and the second writer cut
\* the only entry off
C16_Witness ==
    /\ procs["p"].op = "append"
    /\ procs["p"].pc = "done"
    /\ procs["q"].raced
    /\ procs["q"].cut = EntryBlocks(FileA)
    /\ procs["q"].pc = "done"
    /\ ScanNames(disk.bytes) = <<>>

\* a reader scanned the archive inside the writer's window
C16_ReaderWitness ==
    /\ procs["p"].op = "append"
    /\ procs["q"].op = "exists"
    /\ procs["q"].saw = "open"

(***************************** C17 ***************************************)
\* s is the beginning of t
IsPrefix(s, t) == Len(s) <= Len(t) /\ SubSeq(t, 1, Len(s)) = s

\* C17: when append or update runs on an archive that satisfies the footer
\* invariant, every byte before the old footer is unchanged: the old archive
\* without its last 1024 bytes is a prefix of the new archive, whatever
\* fails during the operation.
C17_AppendFrame ==
    (op.cmd \in {"append", "update"} /\ pre.exists /\ FooterInv(pre.bytes)) =>
        /\ disk.exists
        /\ IsPrefix(CutFooter(pre.bytes), disk.bytes)

C17_Witness ==
    /\ op.cmd = "append"
    /\ FooterInv(pre.bytes)
    /\ pre.bytes = EntryBlocks(FileA) \o Footer
    /\ op.files = <<FileP>>
    /\ op.fault = NoFault
    /\ disk.bytes = EntryBlocks(FileA) \o EntryBlocks(FileP) \o Footer

(***************************** C18 ***************************************)
\* the entries at the beginning of the archive that are completely present
WholeEntries(bytes) == SubSeq(bytes, 1, EntriesEnd(bytes, 1) - 1)

\* C18: every entry that an earlier operation wrote to the archive
\* completely is still completely present after a later append or update,
\* whichever steps failed; in particular after an append that follows a
\* create aborted by an entry failure.  Stated for the archives a create
\* leaves, when it wrote every file and when an entry failure aborted it.
C18_NoEntryLost ==
    op.cmd \in {"append", "update"} =>
        \A L \in Lists : \A f \in Faults(L) :
            (f.k \in {"none", "stat", "io"} /\ pre = create_archive(Absent, L, f).disk)
                => IsPrefix(WholeEntries(pre.bytes), disk.bytes)

(***************************** C19 ***************************************)
\* no two entries of the archive share a name
NoDuplicate(bytes) ==
    LET S == ScanNames(bytes)
    IN  \A i, j \in 1..Len(S) : S[i] = S[j] => i = j

\* C19: update never introduces a duplicate entry name: if no two entries of
\* the archive share a name before update(L), none do after it, for every L,
\* a list that names the same absent file more than once included.  Stated
\* for the updates in which nothing fails.
C19_UpdateNoDuplicate ==
    (op.cmd = "update" /\ op.fault = NoFault /\ pre.exists
        /\ FooterInv(pre.bytes) /\ NoDuplicate(pre.bytes))
        => NoDuplicate(disk.bytes)

====
